---- MODULE Spec2Model ----
(***************************************************************************)
(* Telugu Culinary: the recipe store and favorites store of main.py        *)
(* (TeluguCulinaryApp and the add-recipe form handler) and the chatbot     *)
(* bridge of dify_client.py (ask_dify).                                    *)
(*                                                                         *)
(* Text is a sequence of one-character strings; a character outside ASCII  *)
(* is written "uXXXX" (its code point).  A Python dict is a sequence of    *)
(* [key, value] pairs in insertion order.  A recipe is a record whose      *)
(* 'category' key is present only once get_all_recipes has written it.     *)
(***************************************************************************)
EXTENDS Integers, Sequences, FiniteSets, TLC

\* ------------------------------------------------------------------ text

UpperCase == <<"A","B","C","D","E","F","G","H","I","J","K","L","M",
               "N","O","P","Q","R","S","T","U","V","W","X","Y","Z">>

LowerCase == <<"a","b","c","d","e","f","g","h","i","j","k","l","m",
               "n","o","p","q","r","s","t","u","v","w","x","y","z">>

\* str.lower() on one character (ASCII letters; Telugu has no case).
LowerChar(c) ==
  IF \E i \in DOMAIN UpperCase : UpperCase[i] = c
  THEN LowerCase[CHOOSE i \in DOMAIN UpperCase : UpperCase[i] = c]
  ELSE c

\* str.lower()
Lower(s) == [i \in 1..Len(s) |-> LowerChar(s[i])]

\* str.replace(old, new) for one-character old and new.
Replace(s, old, new) == [i \in 1..Len(s) |-> IF s[i] = old THEN new ELSE s[i]]

\* Python's "needle in hay" on strings.
Contains(hay, needle) ==
  \E i \in 0..(Len(hay) - Len(needle)) :
    SubSeq(hay, i + 1, i + Len(needle)) = needle

\* sep.join(parts)
RECURSIVE Join(_, _)
Join(sep, parts) ==
  IF parts = <<>> THEN <<>>
  ELSE IF Len(parts) = 1 THEN parts[1]
  ELSE parts[1] \o sep \o Join(sep, Tail(parts))

\* str.split(sep) for a one-character sep: always at least one piece.
RECURSIVE Split(_, _)
Split(s, sep) ==
  IF \A i \in 1..Len(s) : s[i] # sep THEN <<s>>
  ELSE LET k == CHOOSE i \in 1..Len(s) :
                  s[i] = sep /\ \A j \in 1..(i - 1) : s[j] # sep
       IN  <<SubSeq(s, 1, k - 1)>> \o Split(SubSeq(s, k + 1, Len(s)), sep)

WhiteSpace == {" ", "\n", "\t"}

\* str.strip()
Strip(s) ==
  IF \A i \in 1..Len(s) : s[i] \in WhiteSpace THEN <<>>
  ELSE LET a == CHOOSE i \in 1..Len(s) :
                  s[i] \notin WhiteSpace /\ \A j \in 1..(i - 1) : s[j] \in WhiteSpace
           b == CHOOSE i \in 1..Len(s) :
                  s[i] \notin WhiteSpace /\ \A j \in (i + 1)..Len(s) : s[j] \in WhiteSpace
       IN  SubSeq(s, a, b)

Digits == <<"0","1","2","3","4","5","6","7","8","9">>

\* str(n) for n >= 0, as the f-string formats len(...).
RECURSIVE Str(_)
Str(n) == IF n < 10 THEN <<Digits[n + 1]>> ELSE Str(n \div 10) \o <<Digits[(n % 10) + 1]>>

\* Python truthiness of a str or a list: non-empty.
Truthy(x) == x # <<>>

\* ------------------------------------------------------- ordered dict

Keys(d) == {d[i].key : i \in DOMAIN d}

Get(d, k) == d[CHOOSE i \in DOMAIN d : d[i].key = k].value

\* d[k] = v : replaces in place, a new key goes last.
Put(d, k, v) ==
  IF k \in Keys(d)
  THEN [i \in DOMAIN d |-> IF d[i].key = k THEN [key |-> k, value |-> v] ELSE d[i]]
  ELSE Append(d, [key |-> k, value |-> v])

\* ------------------------------------------------------ default data

HyderabadiBiryani ==
  [id |-> <<"h", "y", "d", "e", "r", "a", "b", "a", "d", "i", "_", "b", "i", "r", "y", "a", "n", "i">>,
   name |-> <<"u0c39", "u0c48", "u0c26", "u0c30", "u0c3e", "u0c2c", "u0c3e", "u0c26", "u0c40", " ", "u0c2c", "u0c3f", "u0c30", "u0c4d", "u0c2f", "u0c3e", "u0c28", "u0c40">>,
   english_name |-> <<"H", "y", "d", "e", "r", "a", "b", "a", "d", "i", " ", "B", "i", "r", "y", "a", "n", "i">>,
   ingredients |-> <<<<"u0c2c", "u0c3e", "u0c38", "u0c4d", "u0c2e", "u0c24", "u0c3f", " ", "u0c05", "u0c28", "u0c4d", "u0c28", "u0c02">>,
        <<"u0c2e", "u0c1f", "u0c28", "u0c4d">>,
        <<"u0c2f", "u0c4b", "u0c17", "u0c30", "u0c4d", "u0c1f", "u0c4d">>,
        <<"u0c09", "u0c32", "u0c4d", "u0c32", "u0c3f", "u0c2a", "u0c3e", "u0c2f", "u0c32", "u0c41">>,
        <<"u0c2e", "u0c38", "u0c3e", "u0c32", "u0c3e", " ", "u0c2a", "u0c4c", "u0c21", "u0c30", "u0c4d">>>>,
   cooking_time |-> <<"2", " ", "u0c17", "u0c02", "u0c1f", "u0c32", "u0c41">>,
   difficulty |-> <<"u0c15", "u0c37", "u0c4d", "u0c1f", "u0c02">>,
   servings |-> <<"4", "-", "6", " ", "u0c2e", "u0c02", "u0c26", "u0c3f">>,
   description |-> <<"u0c39", "u0c48", "u0c26", "u0c30", "u0c3e", "u0c2c", "u0c3e", "u0c26", "u0c4d", " ", "u0c2f", "u0c4a", "u0c15", "u0c4d", "u0c15", " ", "u0c2a", "u0c4d", "u0c30", "u0c38", "u0c3f", "u0c26", "u0c4d", "u0c27", " ", "u0c2c", "u0c3f", "u0c30", "u0c4d", "u0c2f", "u0c3e", "u0c28", "u0c40">>,
   instructions |-> <<<<"u0c2c", "u0c3e", "u0c38", "u0c4d", "u0c2e", "u0c24", "u0c3f", " ", "u0c05", "u0c28", "u0c4d", "u0c28", "u0c3e", "u0c28", "u0c4d", "u0c28", "u0c3f", " ", "u0c28", "u0c3e", "u0c28", "u0c2c", "u0c46", "u0c1f", "u0c4d", "u0c1f", "u0c02", "u0c21", "u0c3f">>,
        <<"u0c2e", "u0c1f", "u0c28", "u0c4d", "u200c", "u0c28", "u0c41", " ", "u0c2e", "u0c38", "u0c3e", "u0c32", "u0c3e", "u0c32", "u0c24", "u0c4b", " ", "u0c2e", "u0c46", "u0c30", "u0c3f", "u0c28", "u0c47", "u0c1f", "u0c4d", " ", "u0c1a", "u0c47", "u0c2f", "u0c02", "u0c21", "u0c3f">>,
        <<"u0c05", "u0c28", "u0c4d", "u0c28", "u0c02", " ", "u0c35", "u0c47", "u0c2f", "u0c3f", "u0c02", "u0c1a", "u0c02", "u0c21", "u0c3f">>,
        <<"u0c32", "u0c47", "u0c2f", "u0c30", "u0c4d", "u0c32", "u0c41", "u0c17", "u0c3e", " ", "u0c05", "u0c2e", "u0c30", "u0c4d", "u0c1a", "u0c02", "u0c21", "u0c3f">>>>]

GonguraMutton ==
  [id |-> <<"g", "o", "n", "g", "u", "r", "a", "_", "m", "u", "t", "t", "o", "n">>,
   name |-> <<"u0c17", "u0c4b", "u0c02", "u0c17", "u0c42", "u0c30", " ", "u0c2e", "u0c1f", "u0c28", "u0c4d">>,
   english_name |-> <<"G", "o", "n", "g", "u", "r", "a", " ", "M", "u", "t", "t", "o", "n">>,
   ingredients |-> <<<<"u0c2e", "u0c1f", "u0c28", "u0c4d">>,
        <<"u0c17", "u0c4b", "u0c02", "u0c17", "u0c42", "u0c30", " ", "u0c06", "u0c15", "u0c41", "u0c32", "u0c41">>,
        <<"u0c09", "u0c32", "u0c4d", "u0c32", "u0c3f", "u0c2a", "u0c3e", "u0c2f", "u0c32", "u0c41">>,
        <<"u0c35", "u0c46", "u0c32", "u0c4d", "u0c32", "u0c41", "u0c32", "u0c4d", "u0c32", "u0c3f">>>>,
   cooking_time |-> <<"4", "5", " ", "u0c28", "u0c3f", "u0c2e", "u0c3f", "u0c37", "u0c3e", "u0c32", "u0c41">>,
   difficulty |-> <<"u0c2e", "u0c27", "u0c4d", "u0c2f", "u0c2e", "u0c02">>,
   servings |-> <<"4", " ", "u0c2e", "u0c02", "u0c26", "u0c3f">>,
   description |-> <<"u0c06", "u0c02", "u0c27", "u0c4d", "u0c30", "u0c2a", "u0c4d", "u0c30", "u0c26", "u0c47", "u0c36", "u0c4d", " ", "u0c2f", "u0c4a", "u0c15", "u0c4d", "u0c15", " ", "u0c2a", "u0c4d", "u0c30", "u0c24", "u0c4d", "u0c2f", "u0c47", "u0c15", " ", "u0c35", "u0c02", "u0c1f", "u0c15", "u0c02">>,
   instructions |-> <<<<"u0c2e", "u0c1f", "u0c28", "u0c4d", "u200c", "u0c28", "u0c41", " ", "u0c15", "u0c1f", "u0c4d", " ", "u0c1a", "u0c47", "u0c2f", "u0c02", "u0c21", "u0c3f">>,
        <<"u0c17", "u0c4b", "u0c02", "u0c17", "u0c42", "u0c30", " ", "u0c06", "u0c15", "u0c41", "u0c32", "u0c28", "u0c41", " ", "u0c35", "u0c47", "u0c2f", "u0c3f", "u0c02", "u0c1a", "u0c02", "u0c21", "u0c3f">>,
        <<"u0c2e", "u0c38", "u0c3e", "u0c32", "u0c3e", "u0c32", "u0c41", " ", "u0c15", "u0c32", "u0c2a", "u0c02", "u0c21", "u0c3f">>,
        <<"u0c09", "u0c21", "u0c3f", "u0c15", "u0c3f", "u0c02", "u0c1a", "u0c02", "u0c21", "u0c3f">>>>]

Ariselu ==
  [id |-> <<"a", "r", "i", "s", "e", "l", "u">>,
   name |-> <<"u0c05", "u0c30", "u0c3f", "u0c38", "u0c46", "u0c32", "u0c41">>,
   english_name |-> <<"A", "r", "i", "s", "e", "l", "u">>,
   ingredients |-> <<<<"u0c2c", "u0c3f", "u0c2f", "u0c4d", "u0c2f", "u0c02", " ", "u0c2a", "u0c3f", "u0c02", "u0c21", "u0c3f">>,
        <<"u0c17", "u0c41", "u0c21", "u0c4d", "u0c21", "u0c41">>,
        <<"u0c28", "u0c41", "u0c35", "u0c4d", "u0c35", "u0c41", "u0c32", "u0c41">>,
        <<"u0c28", "u0c42", "u0c28", "u0c46">>>>,
   cooking_time |-> <<"1", " ", "u0c17", "u0c02", "u0c1f">>,
   difficulty |-> <<"u0c2e", "u0c27", "u0c4d", "u0c2f", "u0c2e", "u0c02">>,
   servings |-> <<"2", "0", " ", "u0c2e", "u0c41", "u0c15", "u0c4d", "u0c15", "u0c32", "u0c41">>,
   description |-> <<"u0c2a", "u0c02", "u0c21", "u0c41", "u0c17", "u0c32", " ", "u0c2a", "u0c4d", "u0c30", "u0c24", "u0c4d", "u0c2f", "u0c47", "u0c15", " ", "u0c24", "u0c40", "u0c2a", "u0c3f", " ", "u0c35", "u0c02", "u0c1f", "u0c15", "u0c02">>,
   instructions |-> <<<<"u0c2c", "u0c3f", "u0c2f", "u0c4d", "u0c2f", "u0c02", " ", "u0c2a", "u0c3f", "u0c02", "u0c21", "u0c3f", "u0c28", "u0c3f", " ", "u0c15", "u0c32", "u0c2a", "u0c02", "u0c21", "u0c3f">>,
        <<"u0c17", "u0c41", "u0c21", "u0c4d", "u0c21", "u0c41", "u0c24", "u0c4b", " ", "u0c15", "u0c32", "u0c2a", "u0c02", "u0c21", "u0c3f">>,
        <<"u0c28", "u0c41", "u0c35", "u0c4d", "u0c35", "u0c41", "u0c32", "u0c41", " ", "u0c35", "u0c47", "u0c2f", "u0c02", "u0c21", "u0c3f">>,
        <<"u0c28", "u0c42", "u0c28", "u0c46", "u0c32", "u0c4b", " ", "u0c35", "u0c47", "u0c2f", "u0c3f", "u0c02", "u0c1a", "u0c02", "u0c21", "u0c3f">>>>]

get_default_recipes ==
  <<[key |-> "biryanis", value |-> <<HyderabadiBiryani>>],
    [key |-> "curries", value |-> <<GonguraMutton>>],
    [key |-> "sweets", value |-> <<Ariselu>>]>>

\* Difficulty labels offered by the add-recipe form's selectbox.
Difficulties ==
  {<<"u0c38", "u0c41", "u0c32", "u0c2d", "u0c02">>,
   <<"u0c2e", "u0c27", "u0c4d", "u0c2f", "u0c2e", "u0c02">>,
   <<"u0c15", "u0c37", "u0c4d", "u0c1f", "u0c02">>}

\* Categories offered by the add-recipe form's selectbox.
Categories == {"biryanis", "curries", "sweets", "snacks", "breakfast"}

\* ------------------------------------------------------------ bounds

\* Submissions are accepted while the store holds fewer recipes than this.
MaxRecipes == 5

\* ------------------------------------------------------------- files

\* A file of the data directory: missing, unparsable, or a JSON document.
Absent == [kind |-> "absent"]

Malformed == [kind |-> "malformed"]

\* json.dump(value, f, ensure_ascii=False, indent=2) into a file opened 'w':
\* the whole file is replaced by the document of the value.
json_dump(value) == [kind |-> "json", doc |-> value]

\* json.load(f) of a well-formed file.
json_load(file) == file.doc

\* ------------------------------------------------------------- state

Sessions == {1, 2}

VARIABLES
  recipes_file,    \* data/recipes.json
  favorites_file,  \* data/favorites.json
  constructed,     \* constructed[s]: session s holds a TeluguCulinaryApp
  recipes,         \* recipes[s]: self.recipes of session s (ordered dict)
  favorites,       \* favorites[s]: self.favorites of session s (list)
  last             \* the last handler run: [op, session, arg, ret]

store_vars == <<recipes_file, favorites_file, constructed, recipes, favorites, last>>

\* The chatbot bridge (dify_client.py).
VARIABLES
  DIFY_API_KEY,    \* os.getenv("DIFY_API_KEY") at import
  json_error_is_request_exception,
                   \* the installed requests raises its own JSONDecodeError
                   \* (a RequestException) from response.json(); older
                   \* releases raise a plain ValueError
  pc,              \* where ask_dify is
  question,        \* its argument
  sent,            \* the requests.post calls made by the current call
  response,        \* what the post met
  outcome          \* how ask_dify ended

dify_vars == <<DIFY_API_KEY, json_error_is_request_exception, pc, question, sent,
               response, outcome>>

\* ----------------------------------------------- TeluguCulinaryApp

save_recipes(rec) == json_dump(rec)

save_favorites(fav) == json_dump(fav)

\* load_data that seeds the defaults in memory but does not write them.
load_data_without_seed_save(rf, ff) ==
  IF rf.kind = "malformed" \/ ff.kind = "malformed"
  THEN [raised |-> TRUE, recipes_file |-> rf, recipes |-> <<>>, favorites |-> <<>>]
  ELSE [raised |-> FALSE, recipes_file |-> rf,
        recipes |-> IF rf.kind = "absent" THEN get_default_recipes ELSE rf.doc,
        favorites |-> IF ff.kind = "absent" THEN <<>> ELSE ff.doc]

\* load_data: the outcome of __init__ on the two files.  raised: json.load
\* threw (only FileNotFoundError is handled), so no app object exists.
load_data(rf, ff) ==
  LET rec == IF rf.kind = "absent" THEN get_default_recipes ELSE json_load(rf)
      rf2 == IF rf.kind = "absent" THEN save_recipes(rec) ELSE rf
  IN  IF rf.kind = "malformed"
      THEN [raised |-> TRUE, recipes_file |-> rf, recipes |-> <<>>, favorites |-> <<>>]
      ELSE IF ff.kind = "malformed"
      THEN [raised |-> TRUE, recipes_file |-> rf2, recipes |-> <<>>, favorites |-> <<>>]
      ELSE [raised |-> FALSE, recipes_file |-> rf2, recipes |-> rec,
            favorites |-> IF ff.kind = "absent" THEN <<>> ELSE json_load(ff)]

\* recipe['category'] = category
SetCategory(recipe, category) ==
  [f \in (DOMAIN recipe) \cup {"category"} |->
     IF f = "category" THEN category ELSE recipe[f]]

\* self.recipes after get_all_recipes: every stored record carries its tag,
\* because the loop writes the tag into the stored record itself.
Tagged(rec) ==
  [i \in DOMAIN rec |->
     [key |-> rec[i].key,
      value |-> [j \in DOMAIN rec[i].value |-> SetCategory(rec[i].value[j], rec[i].key)]]]

RECURSIVE Concat(_)
Concat(lists) == IF lists = <<>> THEN <<>> ELSE Head(lists) \o Concat(Tail(lists))

\* The list get_all_recipes returns: the (tagged) records, categories in dict
\* order, recipes in list order.
get_all_recipes(rec) == Concat([i \in DOMAIN rec |-> Tagged(rec)[i].value])

\* The searchable text without the description.
searchable_text_without_description(recipe) ==
  Lower(recipe.name \o <<" ">> \o recipe.english_name \o <<" ">> \o
        Join(<<" ">>, recipe.ingredients) \o <<" ">>)

\* The text search_recipes matches a query against.
searchable_text(recipe) ==
  Lower(recipe.name \o <<" ">> \o recipe.english_name \o <<" ">> \o
        Join(<<" ">>, recipe.ingredients) \o <<" ">> \o recipe.description)

\* The list search_recipes returns.
search_recipes(rec, query) ==
  IF ~Truthy(query) THEN get_all_recipes(rec)
  ELSE SelectSeq(get_all_recipes(rec),
                 LAMBDA recipe : Contains(searchable_text(recipe), Lower(query)))

IndexOf(list, x) == CHOOSE i \in DOMAIN list : list[i] = x /\ \A j \in 1..(i - 1) : list[j] # x

\* list.remove(x): removes the first occurrence.
ListRemove(list, x) ==
  SubSeq(list, 1, IndexOf(list, x) - 1) \o SubSeq(list, IndexOf(list, x) + 1, Len(list))

InList(x, list) == \E i \in DOMAIN list : list[i] = x

\* add_to_favorites that appends to the list the file holds, keeping what
\* other sessions wrote.
add_to_favorites_merging(fav, file, recipe_id) ==
  IF ~InList(recipe_id, fav)
  THEN [favorites |-> Append(fav, recipe_id),
        favorites_file |->
          [kind |-> "json",
           doc |-> IF file.kind # "json" THEN Append(fav, recipe_id)
                   ELSE IF InList(recipe_id, file.doc) THEN file.doc
                   ELSE Append(file.doc, recipe_id)],
        ret |-> TRUE]
  ELSE [favorites |-> fav, favorites_file |-> file, ret |-> FALSE]

\* add_to_favorites that saves before it appends.
add_to_favorites_save_first(fav, file, recipe_id) ==
  IF ~InList(recipe_id, fav)
  THEN [favorites |-> Append(fav, recipe_id),
        favorites_file |-> [kind |-> "json", doc |-> fav],
        ret |-> TRUE]
  ELSE [favorites |-> fav, favorites_file |-> file, ret |-> FALSE]

\* add_to_favorites without the membership test.
add_to_favorites_unchecked(fav, file, recipe_id) ==
  [favorites |-> Append(fav, recipe_id),
   favorites_file |-> [kind |-> "json", doc |-> Append(fav, recipe_id)],
   ret |-> TRUE]

add_to_favorites(fav, file, recipe_id) ==
  IF ~InList(recipe_id, fav)
  THEN [favorites |-> Append(fav, recipe_id),
        favorites_file |-> save_favorites(Append(fav, recipe_id)),
        ret |-> TRUE]
  ELSE [favorites |-> fav, favorites_file |-> file, ret |-> FALSE]

\* remove_from_favorites that saves and reports a change for a non-member too.
remove_from_favorites_always_true(fav, file, recipe_id) ==
  IF InList(recipe_id, fav)
  THEN [favorites |-> ListRemove(fav, recipe_id),
        favorites_file |-> [kind |-> "json", doc |-> ListRemove(fav, recipe_id)],
        ret |-> TRUE]
  ELSE [favorites |-> fav, favorites_file |-> [kind |-> "json", doc |-> fav], ret |-> TRUE]

remove_from_favorites(fav, file, recipe_id) ==
  IF InList(recipe_id, fav)
  THEN [favorites |-> ListRemove(fav, recipe_id),
        favorites_file |-> save_favorites(ListRemove(fav, recipe_id)),
        ret |-> TRUE]
  ELSE [favorites |-> fav, favorites_file |-> file, ret |-> FALSE]

is_favorite(fav, recipe_id) == InList(recipe_id, fav)

\* ------------------------------------------------- add-recipe form

RequiredFields ==
  {"telugu_name", "english_name", "cooking_time", "servings", "ingredients", "instructions"}

\* all([telugu_name, english_name, cooking_time, servings, ingredients, instructions])
all_required(form) == \A f \in RequiredFields : Truthy(form[f])

\* [x.strip() for x in text.split('\n') if x.strip()]
StrippedLines(text) ==
  LET parts == Split(text, "\n")
  IN  SelectSeq([i \in DOMAIN parts |-> Strip(parts[i])], LAMBDA x : Truthy(x))

\* An id made of the normalised name alone.
new_id_without_count(rec, telugu_name) == Lower(Replace(telugu_name, " ", "_"))

\* The id the form gives a new recipe.
new_id(rec, telugu_name) ==
  Lower(Replace(telugu_name, " ", "_")) \o <<"_">> \o Str(Len(get_all_recipes(rec)))

new_recipe(rec, form) ==
  [id |-> new_id(rec, form.telugu_name),
   name |-> form.telugu_name,
   english_name |-> form.english_name,
   ingredients |-> StrippedLines(form.ingredients),
   cooking_time |-> form.cooking_time,
   difficulty |-> form.difficulty,
   servings |-> form.servings,
   description |-> form.description,
   instructions |-> StrippedLines(form.instructions)]

\* The submitted branch putting the new record first in its category.
added_in_front(rec, form) ==
  LET tagged == Tagged(rec)
      old    == IF form.category \in Keys(tagged) THEN Get(tagged, form.category) ELSE <<>>
  IN  Put(tagged, form.category, <<new_recipe(rec, form)>> \o old)

\* app.recipes after the submitted branch: get_all_recipes has run (for the
\* id), then the record is appended to its category, created last if absent.
added(rec, form) ==
  LET tagged == Tagged(rec)
      old    == IF form.category \in Keys(tagged) THEN Get(tagged, form.category) ELSE <<>>
  IN  Put(tagged, form.category, Append(old, new_recipe(rec, form)))

\* The submitted branch of show_add_recipe_page.
show_add_recipe_page(rec, file, form) ==
  IF all_required(form)
  THEN [recipes |-> added(rec, form),
        recipes_file |-> save_recipes(added(rec, form)),
        message |-> "success"]
  ELSE [recipes |-> rec, recipes_file |-> file, message |-> "error"]

\* ===================================================== dify_client.py

\* The string returned when no API key is configured.
KeyWarning ==
  <<"u26a0", "ufe0f", " ", "D", "i", "f", "y", " ", "A", "P", "I", " ",
    "k", "e", "y", " ", "n", "o", "t", " ", "c", "o", "n", "f",
    "i", "g", "u", "r", "e", "d", ".", " ", "P", "l", "e", "a",
    "s", "e", " ", "s", "e", "t", " ", "D", "I", "F", "Y", "_",
    "A", "P", "I", "_", "K", "E", "Y", ".">>

\* The string returned when the response carries no answer.
NoResponse ==
  <<"u26a0", "ufe0f", " ", "N", "o", " ", "r", "e", "s", "p", "o", "n",
    "s", "e", " ", "f", "r", "o", "m", " ", "A", "n", "n", "a",
    "p", "u", "r", "n", "a", ".", " ", "T", "r", "y", " ", "a",
    "g", "a", "i", "n", ".">>

\* The prefix of the string returned on a requests exception.
ErrorPrefix ==
  <<"u274c", " ", "E", "r", "r", "o", "r", " ", "c", "o", "n", "n",
    "e", "c", "t", "i", "n", "g", " ", "t", "o", " ", "A", "n",
    "n", "a", "p", "u", "r", "n", "a", ":", " ">>

DIFY_API_URL == "https://api.dify.ai/v1/chat-messages"

\* Python values a JSON body decodes to.
PyNone == [type |-> "NoneType", value |-> <<>>]

PyStr(text) == [type |-> "str", value |-> text]

PyInt(n) == [type |-> "int", value |-> n]

PyBool(b) == [type |-> "bool", value |-> b]

PyList(items) == [type |-> "list", value |-> items]

\* A dict: a sequence of [key, value] pairs, keys being texts.
PyDict(items) == [type |-> "dict", value |-> items]

\* bool(v)
is_truthy(v) ==
  CASE v.type = "NoneType" -> FALSE
    [] v.type = "bool" -> v.value
    [] v.type = "int" -> v.value # 0
    [] OTHER -> v.value # <<>>

AnswerKey == <<"a", "n", "s", "w", "e", "r">>

\* "answer" in data: raises TypeError on a value that is no container.
answer_in(data) ==
  CASE data.type = "dict" -> [raised |-> FALSE, value |-> AnswerKey \in Keys(data.value)]
    [] data.type = "list" -> [raised |-> FALSE, value |-> InList(PyStr(AnswerKey), data.value)]
    [] data.type = "str" -> [raised |-> FALSE, value |-> Contains(data.value, AnswerKey)]
    [] OTHER -> [raised |-> TRUE, value |-> FALSE]

\* What ask_dify does with the decoded body (lines 32-35): the function's
\* outcome, a returned value or an exception leaving the function.
answer_of(data) ==
  IF answer_in(data).raised THEN [kind |-> "raise", exc |-> "TypeError"]
  ELSE IF ~answer_in(data).value THEN [kind |-> "return", value |-> PyStr(NoResponse)]
  ELSE IF data.type # "dict" THEN [kind |-> "raise", exc |-> "TypeError"]
  ELSE IF is_truthy(Get(data.value, AnswerKey))
       THEN [kind |-> "return", value |-> Get(data.value, AnswerKey)]
       ELSE [kind |-> "return", value |-> PyStr(NoResponse)]

\* not DIFY_API_KEY
key_missing(key) == key.type = "NoneType" \/ ~is_truthy(key)

\* An except clause that posts again instead of returning.
except_RequestException_retry(text) ==
  [pc |-> "post", outcome |-> [kind |-> "none"]]

\* The except clause: a RequestException becomes the returned error string.
except_RequestException(text) ==
  [pc |-> "done", outcome |-> [kind |-> "return", value |-> PyStr(ErrorPrefix \o text)]]

\* response.raise_for_status() raises HTTPError for a 4xx or 5xx status.
is_http_error(status) == 400 <= status /\ status < 600

\* The call requests.post receives.
post_call(key, q, user_id) ==
  [url |-> DIFY_API_URL,
   json |-> [query |-> q, inputs |-> <<>>, response_mode |-> "blocking",
             conversation_id |-> PyNone, user |-> user_id],
   headers |-> [Authorization |-> <<"B", "e", "a", "r", "e", "r", " ">> \o key.value],
   timeout |-> 30]

\* A body that is not JSON.
NotJson == [type |-> "not json"]

Bodies ==
  <<PyInt(5), PyNone, PyBool(TRUE), NotJson,
   PyStr(<<"o", "k">>), PyStr(AnswerKey \o <<"s">>),
   PyList(<<>>), PyList(<<PyStr(AnswerKey)>>),
   PyDict(<<>>),
   PyDict(<<[key |-> AnswerKey, value |-> PyStr(<<"X">>)]>>),
   PyDict(<<[key |-> AnswerKey, value |-> PyStr(<<>>)]>>),
   PyDict(<<[key |-> AnswerKey, value |-> PyNone]>>),
   PyDict(<<[key |-> AnswerKey, value |-> PyInt(7)]>>),
   PyDict(<<[key |-> <<"i", "d">>, value |-> PyStr(<<"1">>)],
            [key |-> AnswerKey, value |-> PyStr(<<"Y", " ">>)]>>)>>

\* What one requests.post can meet: an exception of the transport, or a
\* response with a status and a body.
Statuses == <<200, 404, 500>>

Transports ==
  <<[kind |-> "exception", exc |-> "ConnectionError", text |-> <<"r", "e", "f", "u", "s", "e", "d">>],
    [kind |-> "exception", exc |-> "Timeout", text |-> <<"t", "i", "m", "e", "d">>]>> \o
  Concat([i \in DOMAIN Statuses |->
            [j \in DOMAIN Bodies |->
               [kind |-> "response", status |-> Statuses[i], body |-> Bodies[j],
                text |-> Str(Statuses[i]) \o <<" ", "E", "r", "r", "o", "r">>]]])

\* str(e) of the error response.json() raises on a body that is not JSON.
JsonErrorText == <<"E", "x", "p", "e", "c", "t", "i", "n", "g">>

ApiKeys == {PyNone, PyStr(<<>>), PyStr(<<"k">>)}

Questions == {<<"h", "i">>, <<"?">>}

DefaultUser == <<"u", "s", "e", "r", "-", "1">>


\* ----------------------------------------------------------- inputs

\* Identifiers the favorites handlers are called with: a stored recipe's,
\* and one no recipe has.
FavIds == {Ariselu.id, <<"x">>}

\* The duplicate-free lists over a set of identifiers.
RECURSIVE DupFree(_)
DupFree(ids) ==
  {<<>>} \cup UNION {{<<x>> \o l : l \in DupFree(ids \ {x})} : x \in ids}

\* A form with every required field filled.
BaseForm ==
  [telugu_name  |-> <<"P", "u", " ", "L">>,
   english_name |-> <<"T", "a", "m">>,
   category     |-> "snacks",
   difficulty   |-> <<"u0c38", "u0c41", "u0c32", "u0c2d", "u0c02">>,
   cooking_time |-> <<"3", "0">>,
   servings     |-> <<"4">>,
   description  |-> <<>>,
   ingredients  |-> <<"r", "\n", " ", "o", " ">>,
   instructions |-> <<"w", "\n", "\n", "h">>]

\* Submissions that pass validation: an existing and a new category, and an
\* ingredients box holding only white space.
FilledForms ==
  {[BaseForm EXCEPT !.category = c, !.ingredients = i] :
     c \in {"biryanis", "snacks"}, i \in {BaseForm.ingredients, <<" ">>}}

\* Submissions with one required field left blank, or all of them.
BlankForms ==
  {[BaseForm EXCEPT ![f] = <<>>] : f \in RequiredFields} \cup
  {[f \in DOMAIN BaseForm |-> IF f \in RequiredFields THEN <<>> ELSE BaseForm[f]]}

Forms == FilledForms \cup BlankForms

\* Queries typed into the search box while browsing.
Queries == {<<>>, <<"M", "u", "t">>, <<"u0c40", " ", "h">>}

\* ---------------------------------------------------------- actions

\* app = TeluguCulinaryApp(): every script run starts with it.
Construct(s) ==
  LET r == load_data(recipes_file, favorites_file)
  IN  /\ recipes_file' = r.recipes_file
      /\ constructed' = [constructed EXCEPT ![s] = ~r.raised]
      /\ recipes' = [recipes EXCEPT ![s] = r.recipes]
      /\ favorites' = [favorites EXCEPT ![s] = r.favorites]
      /\ last' = [op |-> "__init__", session |-> s, arg |-> <<>>,
                  ret |-> IF r.raised THEN "raise" ELSE "ok"]
      /\ UNCHANGED <<favorites_file, dify_vars>>

\* app.get_all_recipes(), as the home and favorites pages call it.
GetAllRecipes(s) ==
  /\ constructed[s]
  /\ recipes' = [recipes EXCEPT ![s] = Tagged(recipes[s])]
  /\ last' = [op |-> "get_all_recipes", session |-> s, arg |-> <<>>,
              ret |-> get_all_recipes(recipes[s])]
  /\ UNCHANGED <<recipes_file, favorites_file, constructed, favorites, dify_vars>>

\* app.search_recipes(query), as the search page calls it.
SearchRecipes(s, query) ==
  /\ constructed[s]
  /\ recipes' = [recipes EXCEPT ![s] = Tagged(recipes[s])]
  /\ last' = [op |-> "search_recipes", session |-> s, arg |-> query,
              ret |-> search_recipes(recipes[s], query)]
  /\ UNCHANGED <<recipes_file, favorites_file, constructed, favorites, dify_vars>>

AddToFavorites(s, recipe_id) ==
  LET r == add_to_favorites(favorites[s], favorites_file, recipe_id)
  IN  /\ constructed[s]
      /\ favorites' = [favorites EXCEPT ![s] = r.favorites]
      /\ favorites_file' = r.favorites_file
      /\ last' = [op |-> "add_to_favorites", session |-> s, arg |-> recipe_id, ret |-> r.ret]
      /\ UNCHANGED <<recipes_file, constructed, recipes, dify_vars>>

RemoveFromFavorites(s, recipe_id) ==
  LET r == remove_from_favorites(favorites[s], favorites_file, recipe_id)
  IN  /\ constructed[s]
      /\ favorites' = [favorites EXCEPT ![s] = r.favorites]
      /\ favorites_file' = r.favorites_file
      /\ last' = [op |-> "remove_from_favorites", session |-> s, arg |-> recipe_id, ret |-> r.ret]
      /\ UNCHANGED <<recipes_file, constructed, recipes, dify_vars>>

\* The add-recipe form is submitted.
SubmitAddRecipe(s, form) ==
  LET r == show_add_recipe_page(recipes[s], recipes_file, form)
  IN  /\ constructed[s]
      /\ Len(get_all_recipes(recipes[s])) < MaxRecipes
      /\ recipes' = [recipes EXCEPT ![s] = r.recipes]
      /\ recipes_file' = r.recipes_file
      /\ last' = [op |-> "add_recipe", session |-> s, arg |-> form, ret |-> r.message]
      /\ UNCHANGED <<favorites_file, constructed, favorites, dify_vars>>

\* One handler of session s.
Handler(s) ==
  \/ Construct(s)
  \/ GetAllRecipes(s)
  \/ \E query \in Queries : SearchRecipes(s, query)
  \/ \E recipe_id \in FavIds : AddToFavorites(s, recipe_id)
  \/ \E recipe_id \in FavIds : RemoveFromFavorites(s, recipe_id)
  \/ \E form \in Forms : SubmitAddRecipe(s, form)

StoreInit ==
  /\ recipes_file \in {Absent, Malformed, json_dump(get_default_recipes)}
  /\ favorites_file \in {Absent, Malformed} \cup {json_dump(l) : l \in DupFree(FavIds)}
  /\ constructed = [s \in Sessions |-> FALSE]
  /\ recipes = [s \in Sessions |-> <<>>]
  /\ favorites = [s \in Sessions |-> <<>>]
  /\ last = [op |-> "none", session |-> 0, arg |-> <<>>, ret |-> "none"]

NoOutcome == [kind |-> "none"]

NoTransport == [kind |-> "none"]

\* ask_dify(q) is called: line 14.
Ask(q) ==
  /\ pc = "idle"
  /\ question' = q
  /\ sent' = <<>>
  /\ response' = NoTransport
  /\ IF key_missing(DIFY_API_KEY)
     THEN pc' = "done" /\ outcome' = [kind |-> "return", value |-> PyStr(KeyWarning)]
     ELSE pc' = "post" /\ outcome' = NoOutcome
  /\ UNCHANGED store_vars
  /\ UNCHANGED <<DIFY_API_KEY, json_error_is_request_exception>>

\* requests.post(...): line 27.
Post ==
  /\ pc = "post"
  /\ \E n \in DOMAIN Transports :
     LET t == Transports[n] IN
       /\ sent' = Append(sent, post_call(DIFY_API_KEY, question, DefaultUser))
       /\ response' = t
       /\ IF t.kind = "exception"
          THEN /\ pc' = except_RequestException(t.text).pc
               /\ outcome' = except_RequestException(t.text).outcome
          ELSE pc' = "raise_for_status" /\ outcome' = outcome
  /\ UNCHANGED store_vars
  /\ UNCHANGED <<DIFY_API_KEY, json_error_is_request_exception, question>>

\* response.raise_for_status(): line 28.
RaiseForStatus ==
  /\ pc = "raise_for_status"
  /\ IF is_http_error(response.status)
     THEN /\ pc' = except_RequestException(response.text).pc
          /\ outcome' = except_RequestException(response.text).outcome
     ELSE pc' = "json" /\ outcome' = outcome
  /\ UNCHANGED store_vars
  /\ UNCHANGED <<DIFY_API_KEY, json_error_is_request_exception, question, sent, response>>

\* data = response.json() and the answer test: lines 29-35.
ResponseJson ==
  /\ pc = "json"
  /\ IF response.body.type = NotJson.type
     THEN IF json_error_is_request_exception
          THEN /\ pc' = except_RequestException(JsonErrorText).pc
               /\ outcome' = except_RequestException(JsonErrorText).outcome
          ELSE pc' = "done" /\ outcome' = [kind |-> "raise", exc |-> "JSONDecodeError"]
     ELSE pc' = "done" /\ outcome' = answer_of(response.body)
  /\ UNCHANGED store_vars
  /\ UNCHANGED <<DIFY_API_KEY, json_error_is_request_exception, question, sent, response>>

\* The caller has the outcome; the next chat turn can call again.
Finish ==
  /\ pc = "done"
  /\ pc' = "idle"
  /\ outcome' = NoOutcome
  /\ response' = NoTransport
  /\ sent' = <<>>
  /\ UNCHANGED store_vars
  /\ UNCHANGED <<DIFY_API_KEY, json_error_is_request_exception, question>>

DifyInit ==
  /\ DIFY_API_KEY \in ApiKeys
  /\ json_error_is_request_exception \in BOOLEAN
  /\ pc = "idle"
  /\ question = <<>>
  /\ sent = <<>>
  /\ response = NoTransport
  /\ outcome = NoOutcome

DifyNext ==
  \/ \E q \in Questions : Ask(q)
  \/ Post
  \/ RaiseForStatus
  \/ ResponseJson
  \/ Finish

\* ------------------------------------------------- specifications

vars == <<store_vars, dify_vars>>

\* The chatbot is not used.
DifyIdle ==
  /\ DIFY_API_KEY = PyNone
  /\ json_error_is_request_exception = TRUE
  /\ pc = "idle"
  /\ question = <<>>
  /\ sent = <<>>
  /\ response = NoTransport
  /\ outcome = NoOutcome

\* The store is not used.
StoreIdle ==
  /\ recipes_file = Absent
  /\ favorites_file = Absent
  /\ constructed = [s \in Sessions |-> FALSE]
  /\ recipes = [s \in Sessions |-> <<>>]
  /\ favorites = [s \in Sessions |-> <<>>]
  /\ last = [op |-> "none", session |-> 0, arg |-> <<>>, ret |-> "none"]

Init == StoreInit /\ DifyIdle

\* One session: its interactions run one at a time, each to completion.
Next == Handler(1)

\* The recipe and favorites stores in one session.
Spec == Init /\ [][Next]_vars

InitDify == StoreIdle /\ DifyInit

NextDify == DifyNext

\* The chatbot bridge.
SpecDify == InitDify /\ [][NextDify]_vars

\* ---- search_recipes on small stores

\* The longest query tried.
MaxQueryLen == 3

\* The texts of at most n characters over an alphabet.
RECURSIVE Texts(_, _)
Texts(alphabet, n) ==
  IF n = 0 THEN {<<>>}
  ELSE Texts(alphabet, n - 1) \cup
       {<<c>> \o t : c \in alphabet, t \in {u \in Texts(alphabet, n - 1) : Len(u) = n - 1}}

\* Queries are typed in capitals, so only lower-casing makes them match.
SearchQueries == Texts({"A", " "}, MaxQueryLen)

\* A record with the four searched fields given and the rest short.
SmallRecipe(n, e, g, d) ==
  [id |-> <<"r">>, name |-> n, english_name |-> e, ingredients |-> g,
   cooking_time |-> <<"1">>, difficulty |-> <<"u0c15", "u0c37", "u0c4d", "u0c1f", "u0c02">>,
   servings |-> <<"2">>, description |-> d, instructions |-> <<<<"s">>>>]

\* Records over the letters a, A and x: no, one or two ingredients, or one
\* ingredient with a space inside; an empty or a one-letter description.
SmallRecipes ==
  {SmallRecipe(n, e, g, d) :
     n \in {<<"x">>, <<"a">>},
     e \in {<<"x">>, <<"A">>},
     g \in {<<>>, <<<<"a">>>>, <<<<"a">>, <<"A">>>>, <<<<"A", " ", "a">>>>},
     d \in {<<>>, <<"a">>}}

\* The second record of a store of two.
SecondRecipes ==
  {SmallRecipe(<<"x">>, <<"x">>, <<>>, <<>>),
   SmallRecipe(<<"a">>, <<"A">>, <<<<"x">>>>, <<"x">>),
   SmallRecipe(<<"x">>, <<"x", " ", "a">>, <<<<"x">>, <<"a">>>>, <<"A">>)}

\* One or two records, in one category or in two.
SearchStores ==
  {<<[key |-> "curries", value |-> <<r>>]>> : r \in SmallRecipes} \cup
  {<<[key |-> "curries", value |-> <<r1, r2>>]>> : r1 \in SmallRecipes, r2 \in SecondRecipes} \cup
  {<<[key |-> "sweets", value |-> <<r1>>], [key |-> "biryanis", value |-> <<r2>>]>> :
     r1 \in SmallRecipes, r2 \in SecondRecipes}

\* A session constructed on a recipes file holding a small store.
InitSearch ==
  /\ \E content \in SearchStores :
       /\ recipes_file = json_dump(content)
       /\ recipes = [s \in Sessions |-> IF s = 1 THEN json_load(recipes_file) ELSE <<>>]
  /\ favorites_file = Absent
  /\ constructed = [s \in Sessions |-> s = 1]
  /\ favorites = [s \in Sessions |-> <<>>]
  /\ last = [op |-> "__init__", session |-> 1, arg |-> <<>>, ret |-> "ok"]
  /\ DifyIdle

NextSearch == \E query \in SearchQueries : SearchRecipes(1, query)

\* Searches of one session on a small store.
SpecSearch == InitSearch /\ [][NextSearch]_vars

\* ---- two sessions on the same data directory

\* What the two sessions submit.
ConcForms == {BaseForm}

\* A data directory with the built-in recipes and no favorites yet.
InitConc ==
  /\ recipes_file = json_dump(get_default_recipes)
  /\ favorites_file = Absent
  /\ constructed = [s \in Sessions |-> FALSE]
  /\ recipes = [s \in Sessions |-> <<>>]
  /\ favorites = [s \in Sessions |-> <<>>]
  /\ last = [op |-> "none", session |-> 0, arg |-> <<>>, ret |-> "none"]
  /\ DifyIdle

\* Each session runs its script (constructing its own store from the files),
\* adds favorites and submits recipes; the sessions' handlers interleave, and
\* nothing locks the files.
NextConc ==
  \E s \in Sessions :
    \/ Construct(s)
    \/ \E recipe_id \in FavIds : AddToFavorites(s, recipe_id)
    \/ \E form \in ConcForms : SubmitAddRecipe(s, form)

\* Two sessions adding to the same stores.
SpecConc == InitConc /\ [][NextConc]_vars

\* ============================================================ claims

\* The stored fields of a record: all but the tag get_all_recipes writes.
Persisted(recipe) == [f \in (DOMAIN recipe) \ {"category"} |-> recipe[f]]

\* The records of a category map as stored, in dict and list order.
Records(rec) == Concat([i \in DOMAIN rec |-> rec[i].value])

KeySeq(d) == [i \in DOMAIN d |-> d[i].key]

RemoveAt(list, p) == SubSeq(list, 1, p - 1) \o SubSeq(list, p + 1, Len(list))

IsDupFree(list) == \A i, j \in DOMAIN list : i # j => list[i] # list[j]

\* C1: right after a completed mutation (a successful add-recipe submission,
\* an add_to_favorites or remove_from_favorites that returned True) the file of
\* the mutated collection holds exactly the session's in-memory value of it.
WriteThrough ==
  /\ (last.op = "add_recipe" /\ last.ret = "success") =>
       (recipes_file.kind = "json" /\ recipes_file.doc = recipes[last.session])
  /\ (last.op \in {"add_to_favorites", "remove_from_favorites"} /\ last.ret = TRUE) =>
       (favorites_file.kind = "json" /\ favorites_file.doc = favorites[last.session])

\* A favorite was just removed from a list of two and the file holds the rest.
WriteThroughWitness ==
  /\ last.op = "remove_from_favorites" /\ last.ret = TRUE
  /\ Len(favorites[1]) = 1
  /\ favorites_file.kind = "json" /\ favorites_file.doc = favorites[1]
  /\ Len(Records(recipes[1])) = 4

\* C2: no recipe record in the recipes file carries a 'category' field.
NoCategoryPersisted ==
  recipes_file.kind = "json" =>
    \A i \in DOMAIN Records(recipes_file.doc) :
      "category" \notin DOMAIN Records(recipes_file.doc)[i]

\* C4: no identifier occurs twice in a session's favorites list or in the
\* favorites file.
NoDuplicateFavorites ==
  /\ \A s \in Sessions : IsDupFree(favorites[s])
  /\ favorites_file.kind = "json" => IsDupFree(favorites_file.doc)

\* add_to_favorites was just called with an identifier already in a full list.
NoDuplicateFavoritesWitness ==
  /\ last.op = "add_to_favorites" /\ last.ret = FALSE
  /\ Len(favorites[1]) = Cardinality(FavIds)
  /\ favorites_file.kind = "json" /\ Len(favorites_file.doc) = Cardinality(FavIds)

\* C5: add_to_favorites(id) with id a member and remove_from_favorites(id) with
\* id no member return False and change neither the list nor the file; a call
\* that is not redundant returns True.
RedundantFavoritesCall ==
  [][ /\ last'.op = "add_to_favorites" =>
           IF InList(last'.arg, favorites[last'.session])
           THEN last'.ret = FALSE /\ favorites' = favorites /\ favorites_file' = favorites_file
           ELSE last'.ret = TRUE
      /\ last'.op = "remove_from_favorites" =>
           IF ~InList(last'.arg, favorites[last'.session])
           THEN last'.ret = FALSE /\ favorites' = favorites /\ favorites_file' = favorites_file
           ELSE last'.ret = TRUE
    ]_vars

\* remove_from_favorites was just called with a non-member while the file was
\* still absent: it returned False and wrote nothing.
RedundantFavoritesCallWitness ==
  /\ last.op = "remove_from_favorites" /\ last.ret = FALSE
  /\ ~InList(last.arg, favorites[1])
  /\ favorites_file = Absent

\* C6: a construction that finds the recipes file absent writes the built-in
\* map (biryanis, curries, sweets, one recipe each) to it and holds that map in
\* memory; one that finds the favorites file absent holds an empty favorites
\* list; construction raises only on an unparsable file, never on an absent one.
FirstRunRecovery ==
  [][ last'.op = "__init__" =>
        /\ recipes_file = Absent =>
             /\ recipes_file' = [kind |-> "json", doc |-> get_default_recipes]
             /\ KeySeq(recipes_file'.doc) = <<"biryanis", "curries", "sweets">>
             /\ \A i \in DOMAIN recipes_file'.doc : Len(recipes_file'.doc[i].value) = 1
             /\ constructed'[last'.session] => recipes'[last'.session] = recipes_file'.doc
        /\ (favorites_file = Absent /\ constructed'[last'.session]) =>
             favorites'[last'.session] = <<>>
        /\ last'.ret = "raise" <=> ~constructed'[last'.session]
        /\ last'.ret = "raise" => (recipes_file = Malformed \/ favorites_file = Malformed)
    ]_vars

\* The store was just constructed on an empty data directory.
FirstRunRecoveryWitness ==
  /\ last.op = "__init__" /\ last.ret = "ok" /\ constructed[1]
  /\ recipes[1] = get_default_recipes
  /\ recipes_file = [kind |-> "json", doc |-> get_default_recipes]
  /\ favorites_file = Absent /\ favorites[1] = <<>>

NoEmptyRequiredStored ==
  LET Full(r) == /\ Truthy(r.name) /\ Truthy(r.english_name) /\ Truthy(r.cooking_time)
                 /\ Truthy(r.servings) /\ Truthy(r.ingredients) /\ Truthy(r.instructions)
  IN  /\ \A s \in Sessions : \A i \in DOMAIN Records(recipes[s]) : Full(Records(recipes[s])[i])
      /\ recipes_file.kind = "json" =>
           \A i \in DOMAIN Records(recipes_file.doc) : Full(Records(recipes_file.doc)[i])

\* C8: a submission with a required field left blank changes neither the
\* in-memory map nor the recipes file and surfaces the validation error; no
\* record with an empty required field (an empty ingredients or instructions
\* list included) is ever stored.
ValidationPersistsNothing ==
  [][ /\ (last'.op = "add_recipe" /\ \E f \in RequiredFields : last'.arg[f] = <<>>) =>
           (last'.ret = "error" /\ recipes' = recipes /\ recipes_file' = recipes_file)
      /\ NoEmptyRequiredStored'
    ]_vars

\* ---- search

\* The lower-cased query is inside one field: the name, the English name, one
\* ingredient or the description.
FieldMatch(recipe, query) ==
  \/ Contains(Lower(recipe.name), Lower(query))
  \/ Contains(Lower(recipe.english_name), Lower(query))
  \/ \E i \in DOMAIN recipe.ingredients : Contains(Lower(recipe.ingredients[i]), Lower(query))
  \/ Contains(Lower(recipe.description), Lower(query))

\* The pieces the searchable text joins with single spaces; an empty
\* ingredient list is one empty piece.
Pieces(recipe) ==
  <<recipe.name, recipe.english_name>> \o
  (IF recipe.ingredients = <<>> THEN << <<>> >> ELSE recipe.ingredients) \o
  <<recipe.description>>

\* The lower-cased query runs over at least one joining space: the end of one
\* piece, a space, any whole pieces between with their spaces, the start of a
\* later piece.
BoundaryMatch(recipe, query) ==
  LET F == Pieces(recipe) IN
  \E i, j \in DOMAIN F :
    /\ i < j
    /\ \E a \in 0..Len(F[i]), b \in 0..Len(F[j]) :
         Lower(query) =
           Lower(SubSeq(F[i], Len(F[i]) - a + 1, Len(F[i])) \o <<" ">> \o
                 Concat([k \in 1..(j - i - 1) |-> F[i + k] \o <<" ">>]) \o
                 SubSeq(F[j], 1, b))

\* C3 as stated: search_recipes returns, in flattened order, exactly the
\* recipes with the query inside one field.
SearchIsPerField ==
  last.op = "search_recipes" =>
    last.ret = SelectSeq(get_all_recipes(recipes[last.session]),
                         LAMBDA r : FieldMatch(r, last.arg))

\* C3, amended: search_recipes returns, in flattened order, exactly the
\* recipes with the query inside one field or running over the single spaces
\* that join consecutive fields and ingredients; the empty query returns all.
SearchIsPerFieldOrBoundary ==
  last.op = "search_recipes" =>
    /\ last.ret = SelectSeq(get_all_recipes(recipes[last.session]),
                            LAMBDA r : FieldMatch(r, last.arg) \/ BoundaryMatch(r, last.arg))
    /\ last.arg = <<>> => last.ret = get_all_recipes(recipes[last.session])

\* A search returned the second of two recipes only, on a query that is inside
\* no field of it.
SearchIsPerFieldOrBoundaryWitness ==
  /\ last.op = "search_recipes"
  /\ Len(get_all_recipes(recipes[1])) = 2
  /\ last.ret = <<get_all_recipes(recipes[1])[2]>>
  /\ ~FieldMatch(last.ret[1], last.arg)

\* ---- chatbot bridge

CredentialConfigured == DIFY_API_KEY.type = "str" /\ DIFY_API_KEY.value # <<>>

\* C9: a call without a credential makes no request and returns the warning; a
\* call with one makes exactly one requests.post, however it ends.
OneRequestPerCall ==
  /\ Len(sent) <= 1
  /\ ~CredentialConfigured => sent = <<>>
  /\ pc = "done" =>
       IF CredentialConfigured
       THEN Len(sent) = 1 /\ sent[1].url = DIFY_API_URL
       ELSE /\ outcome.kind = "return"
            /\ outcome.value.type = "str"
            /\ outcome.value.value = KeyWarning

\* A call with a credential ended on a timeout after its one request.
OneRequestPerCallWitness ==
  /\ pc = "done" /\ CredentialConfigured
  /\ response.kind = "exception" /\ response.exc = "Timeout"
  /\ Len(sent) = 1

TransportFailure ==
  \/ response.kind = "exception"
  \/ response.kind = "response" /\ is_http_error(response.status)

\* C10: ask_dify always ends by returning a string; after a connection
\* failure, a timeout or an error status that string is the error prefix
\* followed by the failure's description.
NeverRaises ==
  pc = "done" =>
    /\ outcome.kind = "return"
    /\ outcome.value.type = "str"
    /\ TransportFailure => outcome.value.value = ErrorPrefix \o response.text

\* The response was a success: a status that is no error, a JSON body.
SuccessfulResponse ==
  /\ response.kind = "response"
  /\ ~is_http_error(response.status)
  /\ response.body.type # NotJson.type

\* Equal Python values: of one type, with equal contents.
SameValue(a, b) == a.type = b.type /\ a.value = b.value

\* C11: on a successful response a non-empty answer is returned verbatim and
\* an absent or empty answer gives the no-response string; a returned answer,
\* the no-response string, the warning and the error string are the only ways
\* a call ends.
AnswerAloneDecides ==
  pc = "done" =>
    /\ outcome.kind = "return"
    /\ (SuccessfulResponse /\ response.body.type = "dict") =>
         IF /\ AnswerKey \in Keys(response.body.value)
            /\ is_truthy(Get(response.body.value, AnswerKey))
         THEN SameValue(outcome.value, Get(response.body.value, AnswerKey))
         ELSE SameValue(outcome.value, PyStr(NoResponse))
    /\ \/ ~CredentialConfigured /\ SameValue(outcome.value, PyStr(KeyWarning))
       \/ SuccessfulResponse /\ SameValue(outcome.value, PyStr(NoResponse))
       \/ /\ SuccessfulResponse /\ response.body.type = "dict"
          /\ AnswerKey \in Keys(response.body.value)
          /\ SameValue(outcome.value, Get(response.body.value, AnswerKey))
       \/ /\ outcome.value.type = "str"
          /\ SubSeq(outcome.value.value, 1, Len(ErrorPrefix)) = ErrorPrefix

\* ---- recipe ids

Ids(rec) == [i \in DOMAIN Records(rec) |-> Records(rec)[i].id]

\* C13: with the submissions of one session, starting from the built-in map,
\* no two recipes of the store (in memory or in the file) share an id.
UniqueRecipeIds ==
  /\ \A s \in Sessions : IsDupFree(Ids(recipes[s]))
  /\ recipes_file.kind = "json" => IsDupFree(Ids(recipes_file.doc))

\* The same name was just submitted a second time: both records are stored,
\* under ids that end in different counts.
UniqueRecipeIdsWitness ==
  /\ last.op = "add_recipe" /\ last.ret = "success"
  /\ recipes_file.kind = "json" /\ recipes_file.doc = recipes[1]
  /\ \E i, j \in DOMAIN Records(recipes[1]) :
       /\ i < j
       /\ Records(recipes[1])[i].name = Records(recipes[1])[j].name
       /\ Records(recipes[1])[i].id = Lower(Replace(last.arg.telugu_name, " ", "_")) \o <<"_", "3">>
       /\ Records(recipes[1])[j].id = Lower(Replace(last.arg.telugu_name, " ", "_")) \o <<"_", "4">>

\* ---- concurrent sessions

\* C12: a write replaces the file by the writer's own collection: what the
\* file held from another session and the writer never loaded is gone (last
\* writer wins, nothing is merged), and so a state is reached where both
\* sessions' calls succeeded and the file holds only the later one's.
LastWriterWins ==
  [][ /\ (last'.op = "add_to_favorites" /\ last'.ret = TRUE) =>
           /\ favorites_file' = [kind |-> "json",
                                 doc |-> Append(favorites[last'.session], last'.arg)]
           /\ favorites_file.kind = "json" =>
                \A i \in DOMAIN favorites_file.doc :
                  InList(favorites_file.doc[i], favorites_file'.doc) =>
                    \/ InList(favorites_file.doc[i], favorites[last'.session])
                    \/ favorites_file.doc[i] = last'.arg
      /\ (last'.op = "add_recipe" /\ last'.ret = "success") =>
           /\ recipes_file'.kind = "json"
           /\ recipes_file'.doc = recipes'[last'.session]
           /\ Len(Records(recipes_file'.doc)) = Len(Records(recipes[last'.session])) + 1
    ]_vars

\* Session 1 added one favorite and session 2, constructed before that, has
\* just added another: both calls returned True, each session holds its own
\* favorite, and the file holds session 2's list alone.
LostUpdate ==
  /\ constructed[1] /\ constructed[2]
  /\ last.op = "add_to_favorites" /\ last.session = 2 /\ last.ret = TRUE
  /\ last.arg = Ariselu.id
  /\ favorites[1] = << <<"x">> >>
  /\ favorites[2] = <<Ariselu.id>>
  /\ favorites_file = [kind |-> "json", doc |-> <<Ariselu.id>>]
====
